---- MODULE Spec2Model ----
(***************************************************************************)
(* Snodeify: the request-construction layer (lib/requests/Request.js, the  *)
(* WebRequest / AuthRequest factories) and the transport call it makes.    *)
(*                                                                         *)
(* Strings are sequences of tokens; a token is a TLA+ string holding one   *)
(* character or one run of unreserved characters ("US", "albums/123").     *)
(* A parameter map is the sequence of its entries in insertion order, as   *)
(* Object.entries / Object.keys enumerate it.                              *)
(***************************************************************************)
EXTENDS Integers, Sequences, FiniteSets, TLC

VARIABLES
    builders,   \* Builder objects: id -> fields set by the with* steps
    built,      \* ids of the builders a Request object was built from
    pc,         \* the caller: "idle", or "await" while the transport works
    net,        \* the transport calls fetch(url, options) not yet resolved
    nsent,      \* number of transport calls made so far
    result,     \* what the last fetch resolved to
    last,       \* the last call made: operation, target, argument, return value
    arg,        \* SpecPure: the parameter map under test
    out,        \* what the last function or client operation returned
    client      \* SpecClient: the fields of the Snodeify instance

vars == <<builders, built, pc, net, nsent, result, last, arg, out, client>>

(***************************************************************************)
(* JavaScript values                                                       *)
(***************************************************************************)
Undefined == [type |-> "undefined"]
Null == [type |-> "null"]
Str(s) == [type |-> "string", s |-> s]
StrObj(s) == [type |-> "String", s |-> s]
Num(n) == [type |-> "number", n |-> n]
Bool(b) == [type |-> "boolean", b |-> b]
Arr(a) == [type |-> "array", a |-> a]

Entry(k, v) == [k |-> k, v |-> v]

\* The most fetch calls one run makes.
MaxFetch == 2

\* The longest string value of the parameter maps SpecPure draws.
MaxLen == 2

Keys(object) == {object[i].k : i \in DOMAIN object}

Get(object, key) ==
    IF key \in Keys(object)
    THEN (CHOOSE e \in {object[i] : i \in DOMAIN object} : e.k = key).v
    ELSE Undefined

\* The characters String.prototype.trim strips.
WhiteSpace == {" ", "\t"}

RECURSIVE trimStart(_)
trimStart(s) ==
    IF s # <<>> /\ Head(s) \in WhiteSpace THEN trimStart(Tail(s)) ELSE s

RECURSIVE trimEnd(_)
trimEnd(s) ==
    IF s # <<>> /\ s[Len(s)] \in WhiteSpace
    THEN trimEnd(SubSeq(s, 1, Len(s) - 1))
    ELSE s

trim(s) == trimEnd(trimStart(s))

\* !value
Not(value) ==
    CASE value.type = "string" -> value.s = <<>>
      [] value.type = "number" -> value.n = 0
      [] value.type = "boolean" -> ~value.b
      [] value.type \in {"null", "undefined"} -> TRUE
      [] OTHER -> FALSE

filterEmptyStringFalsyOnly(object) ==
    SelectSeq(object, LAMBDA e :
        ~(e.v.type \in {"string", "String"} /\ Not(e.v)))

filterEmptyStringNullToEmpty(object) ==
    LET kept == SelectSeq(object, LAMBDA e :
                    IF e.v.type = "string" \/ e.v.type = "String"
                    THEN ~(Not(e.v) \/ Len(trim(e.v.s)) <= 0)
                    ELSE TRUE)
    IN  [i \in DOMAIN kept |->
            IF kept[i].v.type = "null" THEN Entry(kept[i].k, Str(<<>>))
            ELSE kept[i]]

filterEmptyString(object) ==
    SelectSeq(object, LAMBDA e :
        IF e.v.type = "string" \/ e.v.type = "String"
        THEN ~(Not(e.v) \/ Len(trim(e.v.s)) <= 0)
        ELSE TRUE)

(***************************************************************************)
(* String conversion and the query-string codec (the qs library)           *)
(***************************************************************************)
Digit(d) ==
    CASE d = 0 -> "0" [] d = 1 -> "1" [] d = 2 -> "2" [] d = 3 -> "3"
      [] d = 4 -> "4" [] d = 5 -> "5" [] d = 6 -> "6" [] d = 7 -> "7"
      [] d = 8 -> "8" [] d = 9 -> "9"

RECURSIVE NumberText(_)
NumberText(n) ==
    IF n < 10 THEN <<Digit(n)>> ELSE NumberText(n \div 10) \o <<Digit(n % 10)>>

\* String(value), as '+' and template literals apply it to a scalar.
StringOf(value) ==
    CASE value.type \in {"string", "String"} -> value.s
      [] value.type = "number" -> NumberText(value.n)
      [] value.type = "boolean" -> IF value.b THEN <<"true">> ELSE <<"false">>
      [] value.type = "null" -> <<"null">>
      [] value.type = "undefined" -> <<"undefined">>

\* RFC 3986 percent-encoding of one token: a token outside this table is a run
\* of unreserved characters and is left as it is.
encode(tok) ==
    CASE tok = " " -> "%20" [] tok = "\t" -> "%09" [] tok = "," -> "%2C"
      [] tok = "[" -> "%5B" [] tok = "]" -> "%5D" [] tok = ":" -> "%3A"
      [] tok = "/" -> "%2F" [] tok = "=" -> "%3D" [] tok = "&" -> "%26"
      [] tok = "?" -> "%3F"
      [] OTHER -> tok

RECURSIVE encodeURIComponent(_)
encodeURIComponent(s) ==
    IF s = <<>> THEN <<>> ELSE <<encode(Head(s))>> \o encodeURIComponent(Tail(s))

RECURSIVE Concat(_)
Concat(ss) == IF ss = <<>> THEN <<>> ELSE Head(ss) \o Concat(Tail(ss))

RECURSIVE Join(_, _)
Join(ss, sep) ==
    IF ss = <<>> THEN <<>>
    ELSE IF Len(ss) = 1 THEN Head(ss)
    ELSE Head(ss) \o <<sep>> \o Join(Tail(ss), sep)

\* The text of a token sequence.
RECURSIVE Text(_)
Text(s) == IF s = <<>> THEN "" ELSE Head(s) \o Text(Tail(s))

\* qs: the key=value pieces one value stringifies to under the key `prefix`
\* (arrayFormat 'indices', encode on, strictNullHandling off).
RECURSIVE qs_pieces(_, _, _)
qs_pieces(value, prefix, skipNulls) ==
    CASE value.type = "undefined" -> <<>>
      [] value.type = "null" ->
            IF skipNulls THEN <<>>
            ELSE << encodeURIComponent(prefix) \o <<"=">> >>
      [] value.type \in {"string", "number", "boolean"} ->
            << encodeURIComponent(prefix) \o <<"=">>
                  \o encodeURIComponent(StringOf(value)) >>
      [] value.type = "array" ->
            Concat([i \in 1..Len(value.a) |->
                qs_pieces(value.a[i],
                          prefix \o <<"[">> \o NumberText(i - 1) \o <<"]">>,
                          skipNulls)])
      [] value.type = "String" ->
            Concat([i \in 1..Len(value.s) |->
                qs_pieces(Str(<<value.s[i]>>),
                          prefix \o <<"[">> \o NumberText(i - 1) \o <<"]">>,
                          skipNulls)])

\* qs.stringify(object, { skipNulls })
qs_stringify(object, skipNulls) ==
    Join(Concat([i \in 1..Len(object) |->
        qs_pieces(object[i].v, <<object[i].k>>, skipNulls)]), "&")

(***************************************************************************)
(* Request.js: the builder and the request built from it                   *)
(***************************************************************************)
ApplicationJSON == Str(<<"application/json">>)
ApplicationURLEncodedForm == Str(<<"application/x-www-form-urlencoded">>)

GET == Str(<<"GET">>)
PUT == Str(<<"PUT">>)
POST == Str(<<"POST">>)
DELETE == Str(<<"DELETE">>)

\* An object literal passed as a parameter map, and a URLSearchParams instance.
Obj(m) == [type |-> "object", o |-> m]
URLSearchParams(m) == [type |-> "URLSearchParams", o |-> m]

\* new Builder(): no field is set.
Builder ==
    [baseURI |-> Undefined, path |-> Undefined, method |-> Undefined,
     contentType |-> Undefined, authorization |-> Undefined,
     code |-> Undefined, grantType |-> Undefined, redirectURI |-> Undefined,
     queryParameters |-> Undefined, bodyParameters |-> Undefined]

\* x != null
NotNullish(x) == x.type \notin {"null", "undefined"}

getFullURIUnsanitized(b) ==
    LET params ==
            IF NotNullish(b.queryParameters)
            THEN <<"?">> \o qs_stringify(b.queryParameters.o, TRUE)
            ELSE <<>>
    IN  StringOf(b.baseURI) \o StringOf(b.path) \o params

getFullURINoQuery(b) == StringOf(b.baseURI) \o StringOf(b.path)

getFullURIKeepNulls(b) ==
    LET params ==
            IF NotNullish(b.queryParameters)
            THEN LET queryParams == filterEmptyString(b.queryParameters.o)
                 IN  <<"?">> \o qs_stringify(queryParams, FALSE)
            ELSE <<>>
    IN  StringOf(b.baseURI) \o StringOf(b.path) \o params

getFullURIAlways(b) ==
    LET queryParams ==
            IF NotNullish(b.queryParameters)
            THEN filterEmptyString(b.queryParameters.o)
            ELSE <<>>
    IN  StringOf(b.baseURI) \o StringOf(b.path)
            \o <<"?">> \o qs_stringify(queryParams, TRUE)

getFullURIOmitEmptyQuery(b) ==
    LET query ==
            IF NotNullish(b.queryParameters)
            THEN qs_stringify(filterEmptyString(b.queryParameters.o), TRUE)
            ELSE <<>>
    IN  StringOf(b.baseURI) \o StringOf(b.path)
            \o (IF query # <<>> THEN <<"?">> \o query ELSE <<>>)

getFullURI(b) ==
    LET params ==
            IF NotNullish(b.queryParameters)
            THEN LET queryParams == filterEmptyString(b.queryParameters.o)
                 IN  <<"?">> \o qs_stringify(queryParams, TRUE)
            ELSE <<>>
    IN  StringOf(b.baseURI) \o StringOf(b.path) \o params

\* Request.prototype.getAuthorizationURI
getAuthorizationURI(b) ==
    LET queryString ==
            IF b.queryParameters.type = "object"
            THEN qs_stringify(b.queryParameters.o, FALSE)
            ELSE <<>>
    IN  getFullURI(b) \o queryString

\* The value every builder step and build return: the object itself.
BuilderRef(id) == [type |-> "Builder", id |-> id]
RequestRef(id) == [type |-> "Request", builder |-> id]

Call(op, id, a, ret) == [op |-> op, b |-> id, arg |-> a, ret |-> ret]

withContentType(id, contentType) ==
    /\ pc = "idle"
    /\ builders' = [builders EXCEPT ![id].contentType = contentType]
    /\ last' = Call("withContentType", id, contentType, BuilderRef(id))
    /\ UNCHANGED <<built, pc, net, nsent, result, arg, out, client>>

withAccessTokenShared(id, accessToken) ==
    /\ pc = "idle"
    /\ builders' = [i \in DOMAIN builders |->
                        [builders[i] EXCEPT !.authorization = accessToken]]
    /\ last' = Call("withAccessToken", id, accessToken, BuilderRef(id))
    /\ UNCHANGED <<built, pc, net, nsent, result, arg, out, client>>

withAccessToken(id, accessToken) ==
    /\ pc = "idle"
    /\ builders' = [builders EXCEPT ![id].authorization = accessToken]
    /\ last' = Call("withAccessToken", id, accessToken, BuilderRef(id))
    /\ UNCHANGED <<built, pc, net, nsent, result, arg, out, client>>

withURI(id, baseURI) ==
    /\ pc = "idle"
    /\ builders' = [builders EXCEPT ![id].baseURI = baseURI]
    /\ last' = Call("withURI", id, baseURI, BuilderRef(id))
    /\ UNCHANGED <<built, pc, net, nsent, result, arg, out, client>>

withPath(id, path) ==
    /\ pc = "idle"
    /\ builders' = [builders EXCEPT ![id].path = path]
    /\ last' = Call("withPath", id, path, BuilderRef(id))
    /\ UNCHANGED <<built, pc, net, nsent, result, arg, out, client>>

withMethod(id, method) ==
    /\ pc = "idle"
    /\ builders' = [builders EXCEPT ![id].method = method]
    /\ last' = Call("withMethod", id, method, BuilderRef(id))
    /\ UNCHANGED <<built, pc, net, nsent, result, arg, out, client>>

withBodyParameters(id, parameters) ==
    /\ pc = "idle"
    /\ builders' = [builders EXCEPT ![id].bodyParameters = parameters]
    /\ last' = Call("withBodyParameters", id, parameters, BuilderRef(id))
    /\ UNCHANGED <<built, pc, net, nsent, result, arg, out, client>>

withQueryParameters(id, parameters) ==
    /\ pc = "idle"
    /\ builders' = [builders EXCEPT ![id].queryParameters = parameters]
    /\ last' = Call("withQueryParameters", id, parameters, BuilderRef(id))
    /\ UNCHANGED <<built, pc, net, nsent, result, arg, out, client>>

withCode(id, code) ==
    /\ pc = "idle"
    /\ builders' = [builders EXCEPT ![id].code = code]
    /\ last' = Call("withCode", id, code, BuilderRef(id))
    /\ UNCHANGED <<built, pc, net, nsent, result, arg, out, client>>

withGrantTypeIntoCode(id, grantType) ==
    /\ pc = "idle"
    /\ builders' = [builders EXCEPT ![id].code = grantType]
    /\ last' = Call("withGrantType", id, grantType, BuilderRef(id))
    /\ UNCHANGED <<built, pc, net, nsent, result, arg, out, client>>

withGrantType(id, grantType) ==
    /\ pc = "idle"
    /\ builders' = [builders EXCEPT ![id].grantType = grantType]
    /\ last' = Call("withGrantType", id, grantType, BuilderRef(id))
    /\ UNCHANGED <<built, pc, net, nsent, result, arg, out, client>>

withRedirectURI(id, redirectURI) ==
    /\ pc = "idle"
    /\ builders' = [builders EXCEPT ![id].redirectURI = redirectURI]
    /\ last' = Call("withRedirectURI", id, redirectURI, BuilderRef(id))
    /\ UNCHANGED <<built, pc, net, nsent, result, arg, out, client>>

buildConsuming(id) ==
    /\ pc = "idle"
    /\ built' = built \cup {id}
    /\ builders' = [builders EXCEPT ![id].queryParameters = Undefined,
                                    ![id].bodyParameters = Undefined]
    /\ last' = Call("build", id, Undefined, RequestRef(id))
    /\ UNCHANGED <<pc, net, nsent, result, arg, out, client>>

\* Builder.prototype.build: new Request(this); the Request keeps the builder
\* itself, not a copy of its fields.
build(id) ==
    /\ pc = "idle"
    /\ built' = built \cup {id}
    /\ last' = Call("build", id, Undefined, RequestRef(id))
    /\ UNCHANGED <<builders, pc, net, nsent, result, arg, out, client>>

fetchOptionsGetOnly(b) ==
    [method |-> GET,
     headers |-> [Authorization |-> b.authorization,
                  ContentType |-> b.contentType],
     body |-> Undefined]

fetchOptionsEmptyBody(b) ==
    [method |-> b.method,
     headers |-> [Authorization |-> b.authorization,
                  ContentType |-> b.contentType],
     body |-> IF NotNullish(b.bodyParameters)
                 /\ b.bodyParameters.type # "URLSearchParams"
              THEN Obj(filterEmptyString(b.bodyParameters.o))
              ELSE Obj(<<>>)]

fetchOptionsBodyWithQuery(b) ==
    [method |-> b.method,
     headers |-> [Authorization |-> b.authorization,
                  ContentType |-> b.contentType],
     body |-> IF NotNullish(b.bodyParameters)
                 /\ b.bodyParameters.type # "URLSearchParams"
              THEN Obj(filterEmptyString(
                        b.bodyParameters.o
                            \o (IF NotNullish(b.queryParameters)
                                THEN b.queryParameters.o ELSE <<>>)))
              ELSE Undefined]

\* The options object Request.prototype.fetch hands to the transport. A body
\* key that is not set reads as undefined.
fetchOptions(b) ==
    [method |-> b.method,
     headers |-> [Authorization |-> b.authorization,
                  ContentType |-> b.contentType],
     body |-> IF NotNullish(b.bodyParameters)
                 /\ b.bodyParameters.type # "URLSearchParams"
              THEN Obj(filterEmptyString(b.bodyParameters.o))
              ELSE Undefined]

\* Request.prototype.fetch up to its await: one call of the transport.
fetch(id) ==
    /\ pc = "idle"
    /\ id \in built
    /\ nsent < MaxFetch
    /\ net' = Append(net, [url |-> getFullURI(builders[id]),
                           options |-> fetchOptions(builders[id])])
    /\ nsent' = nsent + 1
    /\ pc' = "await"
    /\ last' = Call("fetch", id, Undefined, Undefined)
    /\ UNCHANGED <<builders, built, result, arg, out, client>>

\* The transport settles the call: fetch returns the response as it is, or the
\* transport's failure reaches the caller.
Response(status) == [type |-> "Response", status |-> status]
TransportError == [type |-> "TypeError"]

resolveRejectingNon2xx(r) ==
    /\ pc = "await"
    /\ net # <<>>
    /\ net' = Tail(net)
    /\ result' = r
    /\ pc' = "idle"
    /\ last' = [last EXCEPT !.ret =
                    IF r.type = "Response" /\ r.status >= 300
                    THEN [type |-> "Error", status |-> r.status]
                    ELSE r]
    /\ UNCHANGED <<builders, built, nsent, arg, out, client>>

resolve(r) ==
    /\ pc = "await"
    /\ net # <<>>
    /\ net' = Tail(net)
    /\ result' = r
    /\ pc' = "idle"
    /\ last' = [last EXCEPT !.ret = r]
    /\ UNCHANGED <<builders, built, nsent, arg, out, client>>

(***************************************************************************)
(* Spec: one builder from Request.builder(), configured step by step,      *)
(* built and fetched.                                                      *)
(***************************************************************************)
WebBaseURI == Str(<<"https://api.spotify.com/v1/">>)
ExampleBaseURI == Str(<<"https://api.example.com/v1/">>)

Paths == {Str(<<"albums/123">>), Str(<<"me/tracks">>)}
Methods == {GET, POST, PUT, DELETE}
ContentTypes == {ApplicationJSON, ApplicationURLEncodedForm}
Tokens == {Str(<<"Bearer T">>)}

QueryMaps ==
    {Obj(<<Entry("market", Str(<<"US">>))>>),
     Obj(<<Entry("market", Str(<<>>)), Entry("limit", Num(20))>>)}

BodyMaps ==
    {Obj(<<Entry("ids", Str(<<"a", ",", "b", ",", "c">>))>>),
     Obj(<<Entry("name", Str(<<" ">>)), Entry("public", Bool(FALSE))>>)}

Responses == {Response(200), Response(404), TransportError}

Returned(fn, ret) == [fn |-> fn, ret |-> ret]
NoReturn == Returned("none", Undefined)

NoCall == Call("none", 0, Undefined, Undefined)

Init ==
    /\ builders = [id \in {1} |-> Builder]
    /\ built = {}
    /\ pc = "idle"
    /\ net = <<>>
    /\ nsent = 0
    /\ result = Undefined
    /\ last = NoCall
    /\ arg = <<>>
    /\ out = NoReturn
    /\ client = Undefined

Next ==
    \E id \in DOMAIN builders :
        \/ \E v \in {ExampleBaseURI} : withURI(id, v)
        \/ \E v \in Paths : withPath(id, v)
        \/ \E v \in Methods : withMethod(id, v)
        \/ \E v \in ContentTypes : withContentType(id, v)
        \/ \E v \in Tokens : withAccessToken(id, v)
        \/ \E v \in QueryMaps : withQueryParameters(id, v)
        \/ \E v \in BodyMaps : withBodyParameters(id, v)
        \/ build(id)
        \/ fetch(id)
        \/ \E r \in Responses : resolve(r)

Spec == Init /\ [][Next]_vars

(***************************************************************************)
(* SpecSteps: every builder step of Request.js, in any order, on one       *)
(* accumulator.                                                            *)
(***************************************************************************)
AuthBaseURI == Str(<<"https://accounts.spotify.com/">>)

StepTokens == {Str(<<"Bearer T">>), Str(<<"Bearer U">>)}
GrantTypes == {Str(<<"authorization_code">>), Str(<<"client_credentials">>)}

NextSteps ==
    \E id \in DOMAIN builders :
        \/ \E v \in {WebBaseURI, AuthBaseURI} : withURI(id, v)
        \/ \E v \in Paths : withPath(id, v)
        \/ \E v \in Methods : withMethod(id, v)
        \/ \E v \in ContentTypes : withContentType(id, v)
        \/ \E v \in StepTokens : withAccessToken(id, v)
        \/ \E v \in {Str(<<"code">>)} : withCode(id, v)
        \/ \E v \in GrantTypes : withGrantType(id, v)
        \/ \E v \in {Str(<<"https://rick.roll.ed">>)} : withRedirectURI(id, v)
        \/ \E v \in QueryMaps : withQueryParameters(id, v)
        \/ \E v \in BodyMaps : withBodyParameters(id, v)

SpecSteps == Init /\ [][NextSteps]_vars

(***************************************************************************)
(* SpecPair: two builders from two WebRequest.builder() calls, configured  *)
(* in any interleaving.                                                    *)
(***************************************************************************)
\* WebRequest.builder() and AuthRequest.builder()
WebRequest_builder == [Builder EXCEPT !.baseURI = WebBaseURI]
AuthRequest_builder == [Builder EXCEPT !.baseURI = AuthBaseURI]

InitPair ==
    /\ builders = [id \in {1, 2} |-> WebRequest_builder]
    /\ built = {}
    /\ pc = "idle"
    /\ net = <<>>
    /\ nsent = 0
    /\ result = Undefined
    /\ last = NoCall
    /\ arg = <<>>
    /\ out = NoReturn
    /\ client = Undefined

NextPair ==
    \E id \in DOMAIN builders :
        \/ \E v \in {AuthBaseURI} : withURI(id, v)
        \/ \E v \in {Str(<<"me/tracks">>)} : withPath(id, v)
        \/ \E v \in {GET} : withMethod(id, v)
        \/ \E v \in {ApplicationJSON} : withContentType(id, v)
        \/ \E v \in StepTokens : withAccessToken(id, v)
        \/ \E v \in {Obj(<<Entry("market", Str(<<"US">>))>>)} :
                withQueryParameters(id, v)
        \/ \E v \in {Obj(<<Entry("ids", Str(<<"a">>))>>)} :
                withBodyParameters(id, v)

SpecPair == InitPair /\ [][NextPair]_vars

(***************************************************************************)
(* SpecPure: the sanitizer and the URL derivation applied to every small   *)
(* parameter map, on the descriptor                                        *)
(*   builder().withURI(base).withPath('albums/123').withMethod(GET)        *)
(*            .withQueryParameters(arg)                                    *)
(***************************************************************************)
Chars == {"a", ",", " ", "\t"}

RECURSIVE StringsUpTo(_)
StringsUpTo(n) ==
    IF n = 0 THEN {<<>>}
    ELSE LET shorter == StringsUpTo(n - 1)
         IN  shorter \cup {Append(s, c) : s \in shorter, c \in Chars}

Scalars ==
    {Str(s) : s \in StringsUpTo(MaxLen)}
        \cup {Null, Undefined, Num(0), Num(20), Bool(TRUE), Bool(FALSE)}

BoxedAndArrays ==
    {StrObj(<<>>), StrObj(<<" ">>), StrObj(<<"a">>),
     Arr(<<>>), Arr(<<Str(<<"a">>), Str(<<>>)>>)}

ParamKeys == {"market", "limit"}

\* Every map over ParamKeys, in every insertion order.
ParamMaps(values) ==
    {<<>>}
        \cup {<<Entry(k, v)>> : k \in ParamKeys, v \in values}
        \cup {<<Entry(k1, v1), Entry(k2, v2)>> :
                 <<k1, k2>> \in {kk \in ParamKeys \X ParamKeys : kk[1] # kk[2]},
                 <<v1, v2>> \in values \X values}

PureDescriptor(m) ==
    [Builder EXCEPT !.baseURI = ExampleBaseURI,
                    !.path = Str(<<"albums/123">>),
                    !.method = GET,
                    !.queryParameters = Obj(m)]

InitPure ==
    /\ arg \in ParamMaps(Scalars) \cup ParamMaps(BoxedAndArrays)
    /\ builders = [id \in {1} |-> PureDescriptor(arg)]
    /\ built = {1}
    /\ pc = "idle"
    /\ net = <<>>
    /\ nsent = 0
    /\ result = Undefined
    /\ last = NoCall
    /\ out = NoReturn
    /\ client = Undefined

callFilterEmptyString ==
    /\ out' = Returned("filterEmptyString", filterEmptyString(arg))
    /\ UNCHANGED <<builders, built, pc, net, nsent, result, last, arg, client>>

callGetFullURI ==
    /\ out' = Returned("getFullURI", getFullURI(builders[1]))
    /\ UNCHANGED <<builders, built, pc, net, nsent, result, last, arg, client>>

\* filterEmptyString applied to its own result.
callFilterEmptyStringTwice ==
    /\ out' = Returned("filterEmptyString twice",
                       filterEmptyString(filterEmptyString(arg)))
    /\ UNCHANGED <<builders, built, pc, net, nsent, result, last, arg, client>>

callGetAuthorizationURI ==
    /\ out' = Returned("getAuthorizationURI", getAuthorizationURI(builders[1]))
    /\ UNCHANGED <<builders, built, pc, net, nsent, result, last, arg, client>>

\* getFullURI on the same descriptor without the withQueryParameters step, and
\* with withQueryParameters(null).
callGetFullURIWithout(parameters) ==
    /\ out' = Returned("getFullURI without queryParameters",
                       getFullURI([builders[1] EXCEPT
                                      !.queryParameters = parameters]))
    /\ UNCHANGED <<builders, built, pc, net, nsent, result, last, arg, client>>

NextPure ==
    \/ callFilterEmptyString
    \/ callFilterEmptyStringTwice
    \/ callGetFullURI
    \/ callGetAuthorizationURI
    \/ \E parameters \in {Undefined, Null} : callGetFullURIWithout(parameters)

SpecPure == InitPure /\ [][NextPure]_vars

(***************************************************************************)
(* The Snodeify client: auth.js and the resource modules                   *)
(***************************************************************************)
\* The most builders one run creates.
MaxCalls == 3

\* new Snodeify(config): accessToken is not set until setAccessToken.
Snodeify(config) ==
    [redirectURI |-> config.redirectURI,
     clientID |-> config.clientID,
     clientSecret |-> config.clientSecret,
     responseType |-> config.responseType,
     scopes |-> config.scopes,
     accessToken |-> Undefined]

\* this[name]: a property no constructor sets reads as undefined.
Prop(this, name) == IF name \in DOMAIN this THEN this[name] ELSE Undefined

\* array.join(sep)
join(array, sep) == Join([i \in 1..Len(array.a) |-> StringOf(array.a[i])], sep)

possible ==
    <<"A", "B", "C", "D", "E", "F", "G", "H", "I", "J", "K", "L", "M",
      "N", "O", "P", "Q", "R", "S", "T", "U", "V", "W", "X", "Y", "Z",
      "a", "b", "c", "d", "e", "f", "g", "h", "i", "j", "k", "l", "m",
      "n", "o", "p", "q", "r", "s", "t", "u", "v", "w", "x", "y", "z",
      "0", "1", "2", "3", "4", "5", "6", "7", "8", "9">>

\* crypto.getRandomValues(new Uint8Array(length)): any bytes; these outcomes
\* stand for them (constant arrays, among them two that agree modulo 62, and
\* one array of distinct bytes).
getRandomValues(length) ==
    {[i \in 1..length |-> x] : x \in {0, 62, 255}}
        \cup {[i \in 1..length |-> (37 * i) % 256]}

generateRandomStringNoWrap(values) ==
    [i \in DOMAIN values |->
        IF values[i] < Len(possible) THEN possible[values[i] + 1]
        ELSE "undefined"]

\* generateRandomString(length), values being the random bytes it drew.
generateRandomString(values) ==
    [i \in DOMAIN values |-> possible[(values[i] % Len(possible)) + 1]]

\* The UTF-8 byte of a character of the credentials.
charCodeAt(c) ==
    CASE c = ":" -> 58 [] c = "c" -> 99 [] c = "d" -> 100 [] c = "e" -> 101
      [] c = "i" -> 105 [] c = "s" -> 115

Base64Chars == possible \o <<"+", "/">>

\* Buffer.toString('base64')
RECURSIVE base64(_)
base64(bytes) ==
    IF bytes = <<>> THEN <<>>
    ELSE LET n == Len(bytes)
             b1 == bytes[1]
             b2 == IF n >= 2 THEN bytes[2] ELSE 0
             b3 == IF n >= 3 THEN bytes[3] ELSE 0
         IN  << Base64Chars[(b1 \div 4) + 1],
                Base64Chars[((b1 % 4) * 16 + (b2 \div 16)) + 1],
                IF n >= 2 THEN Base64Chars[((b2 % 16) * 4 + (b3 \div 64)) + 1]
                ELSE "=",
                IF n >= 3 THEN Base64Chars[(b3 % 64) + 1] ELSE "=" >>
                 \o base64(IF n > 3 THEN SubSeq(bytes, 4, n) ELSE <<>>)

generateAuthorisationToken(clientID, clientSecret) ==
    LET text == StringOf(clientID) \o <<":">> \o StringOf(clientSecret)
    IN  base64([i \in DOMAIN text |-> charCodeAt(text[i])])

\* `${AuthorizationType.Basic} ${auth}` and `${AuthorizationType.Bearer} ${accessToken}`
Basic(auth) == Str(<<"Basic", " ">> \o auth)
Bearer(accessToken) == Str(<<"Bearer", " ">> \o StringOf(accessToken))

\* A parameter's default value.
Default(value, d) == IF value.type = "undefined" THEN d ELSE value

\* What an operation evaluates to when it throws, and while its promise is
\* pending.
Thrown(error) == [type |-> "throw", error |-> error]
Pending == [type |-> "Promise"]
NotAFunction == [type |-> "TypeError", message |-> "response.json is not a function"]
ReferenceError == [type |-> "ReferenceError", message |-> "idString is not defined"]
SyntaxError == [type |-> "SyntaxError", message |-> "Unexpected token"]

\* A response carrying a body; response.json() decodes it.
JSONResponse(status, payload) ==
    [type |-> "Response", status |-> status, payload |-> payload]

json(response) ==
    IF response.payload.type = "object" THEN response.payload
    ELSE Thrown(SyntaxError)

\* The id of the next object Request.builder() creates.
NewBuilder ==
    IF DOMAIN builders = {} THEN 1
    ELSE (CHOOSE id \in DOMAIN builders : TRUE) + 1

\* An operation returns `value` without creating a builder.
Return(op, args, value) ==
    /\ out' = Returned(op, value)
    /\ last' = Call(op, 0, args, value)
    /\ UNCHANGED <<builders, built, pc, net, nsent, result, arg, client>>

\* An operation configures the builder b and throws before build().
Throw(op, args, b, error) ==
    /\ NewBuilder <= MaxCalls
    /\ builders' = (NewBuilder :> b)
    /\ built' = {}
    /\ out' = Returned(op, Thrown(error))
    /\ last' = Call(op, NewBuilder, args, Thrown(error))
    /\ UNCHANGED <<pc, net, nsent, result, arg, client>>

\* An operation configures the builder b, then build().fetch() up to the await.
Send(op, args, b) ==
    /\ NewBuilder <= MaxCalls
    /\ nsent < MaxFetch
    /\ builders' = (NewBuilder :> b)
    /\ built' = {NewBuilder}
    /\ net' = Append(net, [url |-> getFullURI(b), options |-> fetchOptions(b)])
    /\ nsent' = nsent + 1
    /\ pc' = "await"
    /\ out' = Returned(op, Pending)
    /\ last' = Call(op, NewBuilder, args, Pending)
    /\ UNCHANGED <<result, arg, client>>

getLoginURI_builder(this, state) ==
    [AuthRequest_builder EXCEPT
        !.path = Str(<<"authorize">>),
        !.queryParameters =
            Obj(<<Entry("response_type", this.responseType),
                  Entry("client_id", this.clientID),
                  Entry("scope", Str(join(this.scopes, " "))),
                  Entry("redirect_uri", this.redirectURI),
                  Entry("state", Str(state))>>)]

getLoginURI(values) ==
    LET state == generateRandomString(values)
        b == getLoginURI_builder(client, state)
        uri == Str(getAuthorizationURI(b))
    IN  /\ pc = "idle"
        /\ NewBuilder <= MaxCalls
        /\ builders' = (NewBuilder :> b)
        /\ built' = {NewBuilder}
        /\ out' = Returned("getLoginURI", uri)
        /\ last' = Call("getLoginURI", NewBuilder, Undefined, uri)
        /\ UNCHANGED <<pc, net, nsent, result, arg, client>>

getAccessToken_builderClientCredentials(this, code) ==
    [AuthRequest_builder EXCEPT
        !.path = Str(<<"api/token">>),
        !.authorization =
            Basic(generateAuthorisationToken(this.clientID, this.clientSecret)),
        !.contentType = ApplicationURLEncodedForm,
        !.queryParameters =
            Obj(<<Entry("code", code),
                  Entry("grant_type", Str(<<"client_credentials">>)),
                  Entry("redirect_uri", this.redirectURI)>>),
        !.method = POST]

getAccessToken_builderResourceOrigin(this, code) ==
    [WebRequest_builder EXCEPT
        !.path = Str(<<"api/token">>),
        !.authorization =
            Basic(generateAuthorisationToken(this.clientID, this.clientSecret)),
        !.contentType = ApplicationURLEncodedForm,
        !.queryParameters =
            Obj(<<Entry("code", code),
                  Entry("grant_type", Str(<<"authorization_code">>)),
                  Entry("redirect_uri", this.redirectURI)>>),
        !.method = POST]

getAccessToken_builder(this, code) ==
    [AuthRequest_builder EXCEPT
        !.path = Str(<<"api/token">>),
        !.authorization =
            Basic(generateAuthorisationToken(this.clientID, this.clientSecret)),
        !.contentType = ApplicationURLEncodedForm,
        !.queryParameters =
            Obj(<<Entry("code", code),
                  Entry("grant_type", Str(<<"authorization_code">>)),
                  Entry("redirect_uri", this.redirectURI)>>),
        !.method = POST]

getAccessToken(code) ==
    /\ pc = "idle"
    /\ Send("getAccessToken", code, getAccessToken_builder(client, code))

getRefreshToken_builderRefreshGrant(this, refreshToken) ==
    [AuthRequest_builder EXCEPT
        !.path = Str(<<"api/token">>),
        !.contentType = ApplicationURLEncodedForm,
        !.queryParameters =
            Obj(<<Entry("client_id", this.clientID),
                  Entry("grant_type", Str(<<"refresh_token">>)),
                  Entry("refresh_token", refreshToken)>>),
        !.method = POST]

getRefreshToken_builder(this, refreshToken) ==
    [AuthRequest_builder EXCEPT
        !.path = Str(<<"api/token">>),
        !.contentType = ApplicationURLEncodedForm,
        !.queryParameters =
            Obj(<<Entry("client_id", this.clientID),
                  Entry("grant_type", Str(<<"authorization_code">>)),
                  Entry("refresh_token", refreshToken)>>),
        !.method = POST]

getRefreshToken(refreshToken) ==
    /\ pc = "idle"
    /\ Send("getRefreshToken", refreshToken,
            getRefreshToken_builder(client, refreshToken))

setAccessToken(accessToken) ==
    /\ pc = "idle"
    /\ client' = [client EXCEPT !.accessToken = accessToken]
    /\ out' = Returned("setAccessToken", Undefined)
    /\ last' = Call("setAccessToken", 0, accessToken, Undefined)
    /\ UNCHANGED <<builders, built, pc, net, nsent, result, arg>>

\* The earlier auth.js: the client-credentials exchange, a direct transport call
\* up to its await.
getSpotifyAccessToken_request(this) ==
    LET auth == generateAuthorisationToken(this.clientID, this.clientSecret)
    IN  [url |-> <<"https://accounts.spotify.com/", "api/token">>,
         options |->
            [method |-> Str(<<"POST">>),
             headers |->
                [Authorization |-> Basic(auth),
                 ContentType |-> Str(<<"application/x-www-form-urlencoded">>)],
             body |-> URLSearchParams(
                <<Entry("grant_type", Str(<<"client_credentials">>)),
                  Entry("redirect_uri",
                        Str(StringOf(Prop(this, "redirectURL"))))>>)]]

getSpotifyAccessToken ==
    /\ pc = "idle"
    /\ nsent < MaxFetch
    /\ net' = Append(net, getSpotifyAccessToken_request(client))
    /\ nsent' = nsent + 1
    /\ pc' = "await"
    /\ out' = Returned("getSpotifyAccessToken", Pending)
    /\ last' = Call("getSpotifyAccessToken", 0, Undefined, Pending)
    /\ UNCHANGED <<builders, built, result, arg, client>>

\* The arguments of a resource operation.
Args(accessToken, ids, market) ==
    [accessToken |-> accessToken, ids |-> ids, market |-> market]

StatusMessage(status, message) ==
    Obj(<<Entry("status", Str(<<status>>)), Entry("message", Str(<<message>>))>>)

ResourceBuilderStoredToken(path, accessToken) ==
    [WebRequest_builder EXCEPT
        !.path = Str(path),
        !.authorization = Bearer(IF client.accessToken # Undefined
                                 THEN client.accessToken ELSE accessToken),
        !.contentType = ApplicationJSON,
        !.method = GET]

\* The chain WebRequest.builder().withPath(path).withAccessToken(..)
\* .withContentType(ApplicationJSON).withMethod(GET), and the same followed by
\* withQueryParameters({ids: idString, market}).
ResourceBuilder(path, accessToken) ==
    [WebRequest_builder EXCEPT
        !.path = Str(path),
        !.authorization = Bearer(accessToken),
        !.contentType = ApplicationJSON,
        !.method = GET]

SeveralBuilder(path, accessToken, ids, market) ==
    [ResourceBuilder(path, accessToken) EXCEPT
        !.queryParameters =
            Obj(<<Entry("ids", Str(join(ids, ","))), Entry("market", market)>>)]

getAlbum(accessToken, id, market) ==
    /\ pc = "idle"
    /\ Send("getAlbum", Args(accessToken, id, market),
            [ResourceBuilder(<<"albums/">> \o StringOf(id), accessToken) EXCEPT
                !.queryParameters =
                    Obj(<<Entry("market", Default(market, Str(<<>>)))>>)])

getSeveralAlbums(accessToken, ids, market) ==
    /\ pc = "idle"
    /\ IF Len(ids.a) > 20
       THEN Return("getSeveralAlbums", Args(accessToken, ids, market),
                   StatusMessage("400",
                       "You exceeded the maximum (20) number of albums allowed."))
       ELSE IF Len(ids.a) < 1
       THEN Return("getSeveralAlbums", Args(accessToken, ids, market),
                   StatusMessage("400", "Album ID(s) cannot be empty."))
       ELSE Send("getSeveralAlbums", Args(accessToken, ids, market),
                 SeveralBuilder(<<"albums">>, accessToken, ids, market))

getSeveralEpisodes(accessToken, ids, market) ==
    /\ pc = "idle"
    /\ IF Len(ids.a) > 50
       THEN Return("getSeveralEpisodes", Args(accessToken, ids, market),
                   StatusMessage("400",
                       "You exceeded the maximum (50) number of episodes allowed."))
       ELSE IF Len(ids.a) < 1
       THEN Return("getSeveralEpisodes", Args(accessToken, ids, market),
                   StatusMessage("400", "Episode ID(s) cannot be empty."))
       ELSE Send("getSeveralEpisodes", Args(accessToken, ids, market),
                 SeveralBuilder(<<"episodes">>, accessToken, ids,
                                Default(market, Str(<<>>))))

\* getSeveralChapters awaits the builder itself (no build().fetch()), then calls
\* json() on it.
getSeveralChapters(accessToken, ids, market) ==
    /\ pc = "idle"
    /\ IF Len(ids.a) > 50
       THEN Return("getSeveralChapters", Args(accessToken, ids, market),
                   StatusMessage("400",
                       "You exceeded the maximum (50) number of categories allowed."))
       ELSE IF Len(ids.a) < 1
       THEN Return("getSeveralChapters", Args(accessToken, ids, market),
                   StatusMessage("400", "Category ID(s) cannot be empty."))
       ELSE Throw("getSeveralChapters", Args(accessToken, ids, market),
                  SeveralBuilder(<<"chapters">>, accessToken, ids,
                                 Default(market, Str(<<>>))),
                  NotAFunction)

\* getSeveralAudiobooks checks nothing and reads idString, which it never
\* declares: evaluating the argument of withQueryParameters throws.
getSeveralAudiobooks(accessToken, ids, market) ==
    /\ pc = "idle"
    /\ Throw("getSeveralAudiobooks", Args(accessToken, ids, market),
             ResourceBuilder(<<"audiobooks">>, accessToken),
             ReferenceError)

ContinueWholePayload(op, r) ==
    IF r.type # "Response" THEN Thrown(r) ELSE json(r)

\* What the operation `op`, resumed with the transport's outcome r, settles to.
Continue(op, r) ==
    IF r.type # "Response" THEN Thrown(r)
    ELSE IF op = "getSpotifyAccessToken"
         THEN IF json(r).type = "object" THEN Get(json(r).o, "access_token")
              ELSE json(r)
         ELSE json(r)

settleStoringToken(r) ==
    /\ pc = "await"
    /\ net # <<>>
    /\ net' = Tail(net)
    /\ result' = r
    /\ pc' = "idle"
    /\ out' = Returned(last.op, Continue(last.op, r))
    /\ last' = [last EXCEPT !.ret = Continue(last.op, r)]
    /\ client' = IF last.op = "getAccessToken" /\ r.type = "Response"
                    /\ json(r).type = "object"
                 THEN [client EXCEPT !.accessToken = Get(json(r).o, "access_token")]
                 ELSE client
    /\ UNCHANGED <<builders, built, nsent, arg>>

settleRetrying(r) ==
    /\ pc = "await"
    /\ net # <<>>
    /\ IF r.type # "Response" /\ nsent < MaxFetch
       THEN /\ net' = Append(Tail(net), Head(net))
            /\ nsent' = nsent + 1
            /\ result' = r
            /\ UNCHANGED <<pc, out, last>>
       ELSE /\ net' = Tail(net)
            /\ result' = r
            /\ pc' = "idle"
            /\ out' = Returned(last.op, Continue(last.op, r))
            /\ last' = [last EXCEPT !.ret = Continue(last.op, r)]
            /\ UNCHANGED nsent
    /\ UNCHANGED <<builders, built, arg, client>>

\* The transport settles the pending call and the operation that awaits it runs
\* to its end: the transport's failure is thrown on, a response is decoded and
\* returned.
settle(r) ==
    /\ pc = "await"
    /\ net # <<>>
    /\ net' = Tail(net)
    /\ result' = r
    /\ pc' = "idle"
    /\ out' = Returned(last.op, Continue(last.op, r))
    /\ last' = [last EXCEPT !.ret = Continue(last.op, r)]
    /\ UNCHANGED <<builders, built, nsent, arg, client>>

(***************************************************************************)
(* SpecClient: one client from Snodeify.withConfig(Config), its operations *)
(* called one after the other.                                             *)
(***************************************************************************)
Config ==
    [redirectURI |-> Str(<<"https", ":", "/", "/", "rick.roll.ed">>),
     clientID |-> Str(<<"c", "i", "d">>),
     clientSecret |-> Str(<<"s", "e", "c">>),
     responseType |-> Str(<<"code">>),
     scopes |-> Arr(<<Str(<<"user-read-private">>), Str(<<"user-read-email">>)>>)]

Codes == {Str(<<"AQD">>), Str(<<"a", "/", "b">>)}
RefreshTokens == {Str(<<"RT">>)}
AccessTokens == {Str(<<"T">>), Str(<<"U">>)}
Markets == {Str(<<"US">>), Undefined}

\* ids arrays of 0, 1, 20, 21, 50 and 51 ids.
IdLists == {Arr([i \in 1..n |-> Str(<<"x">>)]) : n \in {0, 1, 20, 21, 50, 51}}

TokenPayload ==
    Obj(<<Entry("access_token", Str(<<"AT">>)), Entry("expires_in", Num(3600))>>)
ErrorPayload == Obj(<<Entry("error", Str(<<"invalid_grant">>))>>)

ClientResponses ==
    {JSONResponse(200, TokenPayload), JSONResponse(400, ErrorPayload),
     JSONResponse(502, Str(<<"<html>">>)), TransportError}

InitClient ==
    /\ client = Snodeify(Config)
    /\ builders = <<>>
    /\ built = {}
    /\ pc = "idle"
    /\ net = <<>>
    /\ nsent = 0
    /\ result = Undefined
    /\ last = NoCall
    /\ arg = <<>>
    /\ out = NoReturn

NextClient ==
    \/ \E values \in getRandomValues(16) : getLoginURI(values)
    \/ \E code \in Codes : getAccessToken(code)
    \/ \E refreshToken \in RefreshTokens : getRefreshToken(refreshToken)
    \/ \E accessToken \in AccessTokens : setAccessToken(accessToken)
    \/ getSpotifyAccessToken
    \/ \E ids \in IdLists, market \in Markets :
          \/ getSeveralAlbums(Str(<<"T">>), ids, market)
          \/ getSeveralEpisodes(Str(<<"T">>), ids, market)
          \/ getSeveralChapters(Str(<<"T">>), ids, market)
          \/ getSeveralAudiobooks(Str(<<"T">>), ids, market)
    \/ \E market \in Markets : getAlbum(Str(<<"T">>), Str(<<"123">>), market)
    \/ \E r \in ClientResponses : settle(r)

SpecClient == InitClient /\ [][NextClient]_vars

(***************************************************************************)
(* Properties                                                              *)
(***************************************************************************)
\* A string, primitive or boxed, that is empty or holds white space only.
IsBlankString(value) ==
    /\ value.type \in {"string", "String"}
    /\ \A i \in DOMAIN value.s : value.s[i] \in WhiteSpace

\* C1: the sanitizer returns a map whose key set is exactly the keys of the input
\* whose value is not an empty or whitespace-only string, and every kept key
\* maps to the value it had in the input (null, numbers, booleans and arrays
\* pass through unchanged).
C1_SanitizerKeepsAllButBlankStrings ==
    out.fn = "filterEmptyString" =>
        /\ Keys(out.ret) = {k \in Keys(arg) : ~IsBlankString(Get(arg, k))}
        /\ \A k \in Keys(out.ret) : Get(out.ret, k) = Get(arg, k)
        /\ Cardinality(Keys(out.ret)) = Len(out.ret)

C1_Witness ==
    /\ out.fn = "filterEmptyString"
    /\ Len(arg) = 2
    /\ arg[1].v = Str(<<" ", "\t">>)
    /\ arg[2].v = Null
    /\ out.ret = <<arg[2]>>

\* The entries of a map that carry a value: not a blank string (removed by the
\* sanitizer), not null and not undefined (skipped by the codec).
Present(value) == ~IsBlankString(value) /\ value.type \notin {"null", "undefined"}

\* The pieces of a token sequence between the separators `sep`.
RECURSIVE Split(_, _)
Split(s, sep) ==
    IF \A i \in DOMAIN s : s[i] # sep THEN <<s>>
    ELSE LET i == CHOOSE j \in DOMAIN s :
                      s[j] = sep /\ \A h \in 1..(j - 1) : s[h] # sep
         IN  <<SubSeq(s, 1, i - 1)>> \o Split(SubSeq(s, i + 1, Len(s)), sep)

\* The text a scalar is written as in a query string, percent-encoded.
EncodedScalar(value) ==
    CASE value.type = "string" ->
            [i \in DOMAIN value.s |->
                CASE value.s[i] = " " -> "%20"
                  [] value.s[i] = "\t" -> "%09"
                  [] value.s[i] = "," -> "%2C"
                  [] OTHER -> value.s[i]]
      [] value = Num(0) -> <<"0">>
      [] value = Num(20) -> <<"2", "0">>
      [] value = Bool(TRUE) -> <<"true">>
      [] value = Bool(FALSE) -> <<"false">>

IsScalarMap(m) ==
    \A i \in DOMAIN m :
        m[i].v.type \in {"string", "number", "boolean", "null", "undefined"}

\* C2: for a GET descriptor whose queryParameters (scalars or null) still has a
\* key after sanitizing, the URL is base + path + '?' followed by exactly the
\* key=value pairs, in order and joined by '&', of the keys that carry a value;
\* a key whose value is an empty or whitespace-only string appears nowhere.
C2_QueryHoldsExactlyTheNonEmptyKeys ==
    /\ out.fn = "getFullURI"
    /\ builders[1].method = GET
    /\ IsScalarMap(arg)
    /\ filterEmptyString(arg) # <<>>
    =>
    LET kept == SelectSeq(arg, LAMBDA e : Present(e.v))
        head == <<"https://api.example.com/v1/", "albums/123", "?">>
        query == SubSeq(out.ret, 4, Len(out.ret))
        pairs == IF query = <<>> THEN <<>> ELSE Split(query, "&")
    IN  /\ Len(out.ret) >= 3
        /\ SubSeq(out.ret, 1, 3) = head
        /\ Len(pairs) = Len(kept)
        /\ \A i \in DOMAIN kept :
              pairs[i] = <<kept[i].k, "=">> \o EncodedScalar(kept[i].v)
        /\ \A i \in DOMAIN arg :
              IsBlankString(arg[i].v) =>
                  \A j \in DOMAIN out.ret : out.ret[j] # arg[i].k

C2_Witness ==
    /\ out.fn = "getFullURI"
    /\ arg = <<Entry("market", Str(<<>>)), Entry("limit", Num(20))>>
    /\ Text(out.ret) = "https://api.example.com/v1/albums/123?limit=20"

\* C3: the final URL of a built descriptor is baseURI + path + '?' + the encoded
\* query: base 'https://api.example.com/v1/', path 'albums/123', method GET and
\* query {market: 'US'} are fetched from
\* 'https://api.example.com/v1/albums/123?market=US'.
C3_FinalURLIsBasePathQuery ==
    pc = "await" =>
        LET b == builders[last.b]
            url == net[1].url
        IN  /\ ( /\ b.baseURI = ExampleBaseURI
                 /\ b.path = Str(<<"albums/123">>)
                 /\ b.method = GET
                 /\ b.queryParameters = Obj(<<Entry("market", Str(<<"US">>))>>) )
                => Text(url) = "https://api.example.com/v1/albums/123?market=US"
            /\ ( /\ b.baseURI.type = "string"
                 /\ b.path.type = "string"
                 /\ b.queryParameters.type = "object" )
                => Text(url) =
                      Text(b.baseURI.s) \o Text(b.path.s) \o "?"
                          \o ( CASE b.queryParameters.o[1].v = Str(<<"US">>)
                                      -> "market=US"
                                 [] b.queryParameters.o[1].v = Str(<<>>)
                                      -> "limit=20" )

C3_Witness ==
    /\ pc = "await"
    /\ builders[last.b].method = GET
    /\ Text(net[1].url) = "https://api.example.com/v1/albums/123?market=US"

\* JSON.stringify of a flat map of scalars.
JSONValue(value) ==
    CASE value.type = "string" -> <<"\"">> \o value.s \o <<"\"">>
      [] value.type = "number" -> NumberText(value.n)
      [] value.type = "boolean" -> IF value.b THEN <<"true">> ELSE <<"false">>
      [] value.type = "null" -> <<"null">>

JSONText(m) ==
    LET defined == SelectSeq(m, LAMBDA e : e.v.type # "undefined")
    IN  <<"{">>
            \o Join([i \in 1..Len(defined) |->
                        <<"\"", defined[i].k, "\"", ":">> \o JSONValue(defined[i].v)],
                    ",")
            \o <<"}">>

Sanitized(m) == SelectSeq(m, LAMBDA e : ~IsBlankString(e.v))

\* C4: a body-driven PUT or POST with contentType application/json reaches the
\* transport with the JSON text of the sanitized bodyParameters as its body and
\* the header Content-Type: application/json; PUT with {ids: 'a,b,c'} is sent
\* with the body '{"ids":"a,b,c"}'.
C4_BodyIsJSONText ==
    pc = "await" =>
        LET b == builders[last.b]
            options == net[1].options
        IN  ( /\ b.method \in {PUT, POST}
              /\ b.contentType = ApplicationJSON
              /\ b.bodyParameters.type = "object" )
            => /\ options.headers.ContentType = ApplicationJSON
               /\ options.body.type = "string"
               /\ options.body = Str(JSONText(Sanitized(b.bodyParameters.o)))
               /\ b.bodyParameters.o = <<Entry("ids", Str(<<"a", ",", "b", ",", "c">>))>>
                    => Text(options.body.s) = "{\"ids\":\"a,b,c\"}"

\* C5: a POST with contentType application/x-www-form-urlencoded reaches the
\* transport with a body holding exactly the form fields code, grant_type and
\* redirect_uri, whatever other keys the builder was given.
C5_FormBodyHasTheTokenFields ==
    pc = "await" =>
        LET b == builders[last.b]
            options == net[1].options
        IN  ( /\ b.method = POST
              /\ b.contentType = ApplicationURLEncodedForm )
            => /\ options.body.type = "URLSearchParams"
               /\ Keys(options.body.o) = {"code", "grant_type", "redirect_uri"}

\* The method the transport uses: GET when the options name none.
TransportMethod(options) ==
    IF options.method.type = "undefined" THEN GET ELSE options.method

\* C6: for every configured method in {GET, POST, PUT, DELETE}, one call of fetch
\* on a built descriptor makes exactly one transport call, and that call uses the
\* descriptor's method, its final URL, and the headers Authorization and
\* Content-Type equal to the configured authorization and content type.
C6_FetchIssuesOneRequestAsConfigured ==
    /\ [](pc = "await" /\ builders[last.b].method \in Methods =>
            LET b == builders[last.b]
            IN  /\ Len(net) = 1
                /\ net[1].options.method = b.method
                /\ TransportMethod(net[1].options) = b.method
                /\ net[1].options.headers.Authorization = b.authorization
                /\ net[1].options.headers.ContentType = b.contentType
                /\ SubSeq(net[1].url, 1, 2) = StringOf(b.baseURI) \o StringOf(b.path)
                /\ b.queryParameters.type = "undefined" => Len(net[1].url) = 2
                /\ b.queryParameters.type = "object" =>
                      /\ net[1].url[3] = "?"
                      /\ SubSeq(net[1].url, 4, Len(net[1].url)) =
                            qs_stringify(Sanitized(b.queryParameters.o), TRUE))
    /\ [][ /\ (pc = "idle" /\ pc' = "await") =>
                /\ last'.op = "fetch"
                /\ nsent' = nsent + 1
                /\ Len(net') = Len(net) + 1
           /\ (pc' = pc \/ pc' = "idle") =>
                /\ nsent' = nsent
                /\ Len(net') <= Len(net) ]_vars

C6_Witness ==
    /\ pc = "await"
    /\ nsent = 2
    /\ builders[last.b].method = DELETE
    /\ net[1].options.headers.Authorization = Str(<<"Bearer T">>)
    /\ net[1].options.headers.ContentType = ApplicationJSON

\* C9: build is pure: it makes no transport call and leaves baseURI, path,
\* method, contentType, authorization, code, grantType, redirectURI,
\* queryParameters and bodyParameters of the builder as they were.
C9_BuildIsPure ==
    [][last'.op = "build" /\ last' # last =>
          /\ builders' = builders
          /\ nsent' = nsent
          /\ net' = net
          /\ pc' = pc
          /\ last'.ret = RequestRef(last'.b)]_vars

C9_Witness ==
    /\ last.op = "build"
    /\ builders[last.b].method = POST
    /\ builders[last.b].bodyParameters.type = "object"
    /\ builders[last.b].queryParameters.type = "object"
    /\ nsent = 0

\* C10: a request built from a builder on which no method was set behaves as a
\* GET with no body: the transport call has no body attached, is sent as GET,
\* and carries the configured Authorization and Content-Type headers.
C10_NoMethodIsGetWithoutBody ==
    pc = "await" /\ builders[last.b].method.type = "undefined" =>
        LET b == builders[last.b]
            options == net[1].options
        IN  /\ TransportMethod(options) = GET
            /\ options.body.type = "undefined"
            /\ options.headers.Authorization = b.authorization
            /\ options.headers.ContentType = b.contentType

\* C7: a descriptor configured with withAccessToken('Bearer T') carries the
\* header Authorization 'Bearer T' exactly, and under any interleaving of steps
\* on two builders from separate builder() calls, a step on one changes no field
\* and no header of the other.
C7_BuildersShareNoState ==
    [][last' # last =>
          \A id \in DOMAIN builders :
              /\ last'.b # id =>
                    /\ builders'[id] = builders[id]
                    /\ fetchOptions(builders'[id]).headers
                          = fetchOptions(builders[id]).headers
              /\ (last'.b = id /\ last'.op = "withAccessToken") =>
                    /\ fetchOptions(builders'[id]).headers.Authorization = last'.arg
                    /\ last'.arg = Str(<<"Bearer T">>) =>
                          Text(fetchOptions(builders'[id]).headers.Authorization.s)
                              = "Bearer T"]_vars

C7_Witness ==
    /\ last.op = "withAccessToken"
    /\ last.b = 2
    /\ builders[1].authorization = Str(<<"Bearer T">>)
    /\ builders[2].authorization = Str(<<"Bearer U">>)
    /\ fetchOptions(builders[1]).headers.Authorization = Str(<<"Bearer T">>)

\* The field each step is for.
StepField(op) ==
    CASE op = "withURI" -> "baseURI"
      [] op = "withPath" -> "path"
      [] op = "withContentType" -> "contentType"
      [] op = "withCode" -> "code"
      [] op = "withGrantType" -> "grantType"
      [] op = "withRedirectURI" -> "redirectURI"
      [] op = "withMethod" -> "method"
      [] op = "withAccessToken" -> "authorization"
      [] op = "withQueryParameters" -> "queryParameters"
      [] op = "withBodyParameters" -> "bodyParameters"

\* C8: each builder step stores its argument in exactly its own field, leaves
\* every other field as the earlier steps set it, and returns the same
\* accumulator.
C8_StepSetsOnlyItsField ==
    [][last' # last =>
          LET id == last'.b
              field == StepField(last'.op)
          IN  /\ builders'[id][field] = last'.arg
              /\ \A other \in DOMAIN builders[id] \ {field} :
                    builders'[id][other] = builders[id][other]
              /\ last'.ret = BuilderRef(id)]_vars

C8_Witness ==
    /\ last.op = "withRedirectURI"
    /\ builders[1].redirectURI = Str(<<"https://rick.roll.ed">>)
    /\ builders[1].code = Str(<<"code">>)
    /\ builders[1].grantType = Str(<<"client_credentials">>)
    /\ builders[1].method = PUT
    /\ builders[1].authorization = Str(<<"Bearer U">>)
    /\ builders[1].bodyParameters.type = "object"
    /\ builders[1].queryParameters.type = "object"
    /\ builders[1].baseURI = AuthBaseURI
    /\ builders[1].path = Str(<<"me/tracks">>)
    /\ builders[1].contentType = ApplicationJSON


\* The value of the last key=value pair of a URI: the tokens after its last '='.
StateOf(uri) ==
    LET i == CHOOSE j \in DOMAIN uri :
                 uri[j] = "=" /\ \A h \in (j + 1)..Len(uri) : uri[h] # "="
    IN  SubSeq(uri, i + 1, Len(uri))

Alphanumerics ==
    {"A", "B", "C", "D", "E", "F", "G", "H", "I", "J", "K", "L", "M",
     "N", "O", "P", "Q", "R", "S", "T", "U", "V", "W", "X", "Y", "Z",
     "a", "b", "c", "d", "e", "f", "g", "h", "i", "j", "k", "l", "m",
     "n", "o", "p", "q", "r", "s", "t", "u", "v", "w", "x", "y", "z",
     "0", "1", "2", "3", "4", "5", "6", "7", "8", "9"}

\* A state token: sixteen characters, each from A-Z, a-z, 0-9.
IsStateToken(state) ==
    /\ Len(state) = 16
    /\ \A i \in DOMAIN state : state[i] \in Alphanumerics

\* C11: getLoginURI issues no network request and returns the authorization
\* server's base URI followed by 'authorize', '?' and the percent-encoded query
\* carrying exactly the five parameters response_type, client_id, scope (the
\* scopes joined by a single space), redirect_uri and state, each appearing
\* once, with state equal to the freshly generated token.
C11_LoginURICarriesTheFiveParametersOnce ==
    last.op = "getLoginURI" =>
        LET uri == last.ret.s
            pairs == Split(SubSeq(uri, 4, Len(uri)), "&")
        IN  /\ pc = "idle"
            /\ net = <<>>
            /\ SubSeq(uri, 1, 3)
                  = <<"https://accounts.spotify.com/", "authorize", "?">>
            /\ Len(pairs) = 5
            /\ Text(pairs[1]) = "response_type=code"
            /\ Text(pairs[2]) = "client_id=cid"
            /\ Text(pairs[3]) = "scope=user-read-private%20user-read-email"
            /\ Text(pairs[4]) = "redirect_uri=https%3A%2F%2Frick.roll.ed"
            /\ SubSeq(pairs[5], 1, 2) = <<"state", "=">>
            /\ IsStateToken(SubSeq(pairs[5], 3, Len(pairs[5])))

\* C12 as stated: two calls of getLoginURI, one after the other, produce two
\* different state values, each of length 16 and each composed only of
\* characters from A-Z, a-z, 0-9.
C12_TwoCallsGiveDifferentStates ==
    [][last.op = "getLoginURI" /\ last'.op = "getLoginURI" /\ last'.b # last.b =>
          /\ StateOf(last'.ret.s) # StateOf(last.ret.s)
          /\ IsStateToken(StateOf(last'.ret.s))
          /\ IsStateToken(StateOf(last.ret.s))]_vars

\* C12: every call of getLoginURI produces a state value of the configured
\* length (16) composed only of characters from A-Z, a-z, 0-9; the values of two
\* calls are drawn independently from the random source and can coincide.
C12_StateIsSixteenAlphanumerics ==
    last.op = "getLoginURI" => IsStateToken(StateOf(last.ret.s))

C12_Witness ==
    /\ last.op = "getLoginURI"
    /\ last.b = 2
    /\ nsent = 0
    /\ Text(StateOf(last.ret.s)) = "lMxY9kDoP0bCnGrS"


\* A call step of `op` makes exactly one transport call, and the step that
\* settles it makes none.
OneRequestPerCall(op) ==
    /\ (last'.op = op /\ pc = "idle" /\ pc' = "await") =>
          /\ nsent' = nsent + 1
          /\ net = <<>>
          /\ Len(net') = 1
    /\ (last.op = op /\ pc = "await") =>
          /\ nsent' = nsent
          /\ net' = <<>>
          /\ pc' = "idle"

\* C13: getAccessToken(code) issues exactly one request: a POST to 'api/token' on
\* the authorization server's base URI with the header Authorization
\* 'Basic ' + base64(clientID:clientSecret), Content-Type
\* application/x-www-form-urlencoded, and the parameters code (the argument),
\* grant_type=authorization_code and redirect_uri (the client's redirectURI).
C13_AccessTokenExchangeRequest ==
    /\ [](pc = "await" /\ last.op = "getAccessToken" =>
            /\ Len(net) = 1
            /\ Text(net[1].options.method.s) = "POST"
            /\ Text(net[1].options.headers.Authorization.s) = "Basic Y2lkOnNlYw=="
            /\ Text(net[1].options.headers.ContentType.s)
                  = "application/x-www-form-urlencoded"
            /\ Text(net[1].url)
                  = "https://accounts.spotify.com/api/token?code="
                      \o ( CASE last.arg = Str(<<"AQD">>) -> "AQD"
                             [] last.arg = Str(<<"a", "/", "b">>) -> "a%2Fb" )
                      \o "&grant_type=authorization_code"
                      \o "&redirect_uri=https%3A%2F%2Frick.roll.ed")
    /\ [][OneRequestPerCall("getAccessToken")]_vars

C13_Witness ==
    /\ pc = "await"
    /\ last.op = "getAccessToken"
    /\ last.arg = Str(<<"a", "/", "b">>)
    /\ nsent = 2
    /\ Len(net) = 1

\* C14: getRefreshToken(refreshToken) issues exactly one request: a POST to
\* 'api/token' on the authorization server's base URI with Content-Type
\* application/x-www-form-urlencoded and the parameters client_id (the client's
\* clientID), grant_type=authorization_code and refresh_token (the argument).
C14_RefreshTokenExchangeRequest ==
    /\ [](pc = "await" /\ last.op = "getRefreshToken" =>
            /\ Len(net) = 1
            /\ Text(net[1].options.method.s) = "POST"
            /\ Text(net[1].options.headers.ContentType.s)
                  = "application/x-www-form-urlencoded"
            /\ last.arg = Str(<<"RT">>) =>
                  Text(net[1].url)
                      = "https://accounts.spotify.com/api/token?client_id=cid"
                          \o "&grant_type=authorization_code&refresh_token=RT")
    /\ [][OneRequestPerCall("getRefreshToken")]_vars

C14_Witness ==
    /\ pc = "await"
    /\ last.op = "getRefreshToken"
    /\ last.arg = Str(<<"RT">>)
    /\ nsent = 1
    /\ Len(net) = 1

\* C15: the client-credentials exchange issues one POST to 'api/token' with Basic
\* authorization and a form body holding exactly grant_type=client_credentials
\* and redirect_uri, and returns only the access_token field of the decoded
\* payload, never the whole payload.
C15_ClientCredentialsExchange ==
    /\ [](pc = "await" /\ last.op = "getSpotifyAccessToken" =>
            /\ Len(net) = 1
            /\ Text(net[1].url) = "https://accounts.spotify.com/api/token"
            /\ Text(net[1].options.method.s) = "POST"
            /\ Text(net[1].options.headers.Authorization.s) = "Basic Y2lkOnNlYw=="
            /\ net[1].options.body.type = "URLSearchParams"
            /\ Len(net[1].options.body.o) = 2
            /\ Keys(net[1].options.body.o) = {"grant_type", "redirect_uri"}
            /\ Get(net[1].options.body.o, "grant_type")
                  = Str(<<"client_credentials">>))
    /\ [](pc = "idle" /\ last.op = "getSpotifyAccessToken"
            /\ result.type = "Response" /\ result.payload.type = "object" =>
            /\ out = Returned("getSpotifyAccessToken",
                              Get(result.payload.o, "access_token"))
            /\ out.ret # result.payload
            /\ result.payload = TokenPayload => out.ret = Str(<<"AT">>))
    /\ [][OneRequestPerCall("getSpotifyAccessToken")]_vars

C15_Witness ==
    /\ pc = "idle"
    /\ last.op = "getSpotifyAccessToken"
    /\ result = JSONResponse(200, TokenPayload)
    /\ out.ret = Str(<<"AT">>)
    /\ nsent = 1


\* C16: after any sequence of client operations, the client's accessToken slot
\* holds the argument of the most recent setAccessToken call (unset if there was
\* none), and clientID, clientSecret, redirectURI, responseType and scopes equal
\* the values given at construction: getLoginURI, getAccessToken,
\* getRefreshToken and every resource call write none of these fields.
C16_OnlySetAccessTokenWritesTheClient ==
    /\ [](/\ client.clientID = Str(<<"c", "i", "d">>)
          /\ client.clientSecret = Str(<<"s", "e", "c">>)
          /\ client.redirectURI = Str(<<"https", ":", "/", "/", "rick.roll.ed">>)
          /\ client.responseType = Str(<<"code">>)
          /\ client.scopes = Arr(<<Str(<<"user-read-private">>),
                                   Str(<<"user-read-email">>)>>)
          /\ last.op = "none" => client.accessToken = Undefined
          /\ last.op = "setAccessToken" => client.accessToken = last.arg)
    /\ [][last'.op # "setAccessToken" => client' = client]_vars

C16_Witness ==
    /\ pc = "idle"
    /\ last.op = "getAccessToken"
    /\ out.ret = TokenPayload
    /\ client.accessToken = Str(<<"U">>)
    /\ nsent = 2

\* The most ids a bulk operation accepts.
Ceiling(op) ==
    CASE op = "getSeveralAlbums" -> 20
      [] op \in {"getSeveralEpisodes", "getSeveralChapters",
                 "getSeveralAudiobooks"} -> 50

\* C17: a bulk operation with an id ceiling N (20 for albums, 50 for episodes,
\* chapters and audiobooks) called with an id count outside [1, N] issues no
\* network request and returns a structured object with a status and a message
\* instead of throwing.
C17_CountOutsideRangeIsAnsweredLocally ==
    ( /\ last.op \in {"getSeveralAlbums", "getSeveralEpisodes",
                      "getSeveralChapters", "getSeveralAudiobooks"}
      /\ ( Len(last.arg.ids.a) < 1 \/ Len(last.arg.ids.a) > Ceiling(last.op) ) )
    => /\ pc = "idle"
       /\ net = <<>>
       /\ out.ret.type = "object"
       /\ Keys(out.ret.o) = {"status", "message"}


\* C18: fetch returns to its caller the very response the transport produced,
\* for every HTTP status (2xx or not): it neither inspects the status, nor
\* parses the body, nor turns a non-2xx response into a failure.
C18_FetchReturnsTheTransportResponse ==
    /\ [](pc = "idle" /\ last.op = "fetch" /\ result.type = "Response" =>
            /\ last.ret = result
            /\ last.ret.type = "Response"
            /\ last.ret.status = result.status)
    /\ [][pc = "await" /\ pc' = "idle" =>
            /\ last'.op = "fetch"
            /\ last'.ret = result'
            /\ builders' = builders
            /\ nsent' = nsent]_vars

C18_Witness ==
    /\ pc = "idle"
    /\ last.op = "fetch"
    /\ result = Response(404)
    /\ last.ret = Response(404)

\* C19: when the transport fails (DNS, connection, timeout), the call ends in
\* that failure at the immediate caller and no second request is ever issued for
\* the same call: at every layer the number of requests sent per operation is at
\* most one.
C19_NoRetryAtAnyLayer ==
    [][ /\ nsent' <= nsent + 1
        /\ nsent' = nsent + 1 => pc = "idle" /\ pc' = "await" /\ Len(net') = 1
        /\ pc = "await" =>
              /\ nsent' = nsent
              /\ net' = <<>>
              /\ pc' = "idle"
              /\ result' = TransportError =>
                    /\ out' = Returned(last.op, Thrown(TransportError))
                    /\ last' = [last EXCEPT !.ret = Thrown(TransportError)] ]_vars

C19_Witness ==
    /\ pc = "idle"
    /\ last.op = "getRefreshToken"
    /\ result = TransportError
    /\ out = Returned("getRefreshToken", Thrown(TransportError))
    /\ nsent = 1

\* C20: sanitizing is idempotent: for every parameter map m, sanitizing the
\* sanitized map gives the same map as sanitizing m once.
C20_SanitizingIsIdempotent ==
    out.fn = "filterEmptyString twice" => out.ret = filterEmptyString(arg)

C20_Witness ==
    /\ out.fn = "filterEmptyString twice"
    /\ arg = <<Entry("market", Str(<<" ">>)), Entry("limit", Null)>>
    /\ out.ret = <<Entry("limit", Null)>>


\* C21: a key of queryParameters whose value is null never appears in the
\* derived query string, neither as 'key=' nor as 'key'; only the non-null,
\* non-empty keys are encoded.
C21_NullKeysNeverAppear ==
    out.fn = "getFullURI" =>
        /\ \A i \in DOMAIN arg :
              arg[i].v.type = "null" =>
                  \A j \in DOMAIN out.ret : out.ret[j] # arg[i].k
        /\ \A k \in Keys(arg) :
              (\E j \in DOMAIN out.ret : out.ret[j] = k) => Present(Get(arg, k))

C21_Witness ==
    /\ out.fn = "getFullURI"
    /\ arg = <<Entry("market", Null), Entry("limit", Num(20))>>
    /\ Text(out.ret) = "https://api.example.com/v1/albums/123?limit=20"


\* C22: if queryParameters was never set on the builder, the final URL is
\* exactly baseURI + path and contains no '?'.
C22_NoQueryNoQuestionMark ==
    pc = "await" /\ builders[last.b].queryParameters.type = "undefined" =>
        LET b == builders[last.b]
            url == net[1].url
        IN  /\ url = StringOf(b.baseURI) \o StringOf(b.path)
            /\ Len(url) = 2
            /\ \A j \in DOMAIN url : url[j] # "?"
            /\ (b.baseURI = ExampleBaseURI /\ b.path = Str(<<"me/tracks">>)) =>
                  Text(url) = "https://api.example.com/v1/me/tracks"

C22_Witness ==
    /\ pc = "await"
    /\ builders[last.b].queryParameters.type = "undefined"
    /\ builders[last.b].bodyParameters.type = "object"
    /\ Text(net[1].url) = "https://api.example.com/v1/me/tracks"

C24_QueryAndBodyAreEncodedIndependently ==
    /\ []( ( /\ pc = "await"
             /\ builders[last.b].queryParameters.type = "object"
             /\ builders[last.b].bodyParameters.type = "object" )
           => LET query == builders[last.b].queryParameters.o
                  body == builders[last.b].bodyParameters.o
              IN  /\ Len(net) = 1
                  /\ Text(SubSeq(net[1].url, 3, Len(net[1].url)))
                        = ( CASE query = <<Entry("market", Str(<<"US">>))>>
                                   -> "?market=US"
                              [] query = <<Entry("market", Str(<<>>)),
                                           Entry("limit", Num(20))>>
                                   -> "?limit=20" )
                  /\ net[1].options.body
                        = ( CASE body = <<Entry("ids",
                                                Str(<<"a", ",", "b", ",", "c">>))>>
                                   -> Obj(body)
                              [] body = <<Entry("name", Str(<<" ">>)),
                                          Entry("public", Bool(FALSE))>>
                                   -> Obj(<<Entry("public", Bool(FALSE))>>) ) )
    /\ [][pc = "idle" /\ pc' = "await" =>
            /\ builders' = builders
            /\ nsent' = nsent + 1]_vars

C24_Witness ==
    /\ pc = "await"
    /\ builders[last.b].method = DELETE
    /\ Text(net[1].url) = "https://api.example.com/v1/me/tracks?limit=20"
    /\ net[1].options.body = Obj(<<Entry("public", Bool(FALSE))>>)


\* C25: nothing the library puts on the wire or returns as a URI carries a
\* parameter with an empty value: in the URL fetch sends (getFullURI) and in the
\* URI returned by getLoginURI / getAuthorizationURI, no key whose configured
\* value is an empty or whitespace-only string appears (no 'key=').
C25_NoBlankParameterInAnyURI ==
    out.fn \in {"getFullURI", "getAuthorizationURI"} =>
        \A i \in DOMAIN arg :
            IsBlankString(arg[i].v) =>
                \A j \in DOMAIN out.ret : out.ret[j] # arg[i].k


\* C28: when queryParameters is set (non-null) but every key is removed by
\* sanitizing or null-skipping (including the empty map), getFullURI still
\* appends '?': the final URL is baseURI + path + '?' with an empty query, so a
\* '?' is present exactly when queryParameters is non-null, not when the encoded
\* query is non-empty.
C28_QuestionMarkIffQueryParametersSet ==
    /\ out.fn = "getFullURI" =>
          /\ Len(out.ret) >= 3
          /\ out.ret[3] = "?"
          /\ (\A i \in DOMAIN arg :
                  IsBlankString(arg[i].v) \/ arg[i].v.type \in {"null", "undefined"})
                => Text(out.ret) = "https://api.example.com/v1/albums/123?"
    /\ out.fn = "getFullURI without queryParameters" =>
          /\ \A j \in DOMAIN out.ret : out.ret[j] # "?"
          /\ Text(out.ret) = "https://api.example.com/v1/albums/123"

C28_Witness ==
    /\ out.fn = "getFullURI"
    /\ arg = <<Entry("market", Str(<<" ">>)), Entry("limit", Null)>>
    /\ Text(out.ret) = "https://api.example.com/v1/albums/123?"


\* C26: once build has produced a descriptor, its derived URL, method, headers
\* and body never change: further with* steps applied to the builder it came
\* from (or a second build on that builder) do not alter what a later fetch of
\* the first descriptor sends.
C26_BuiltDescriptorNeverChanges ==
    [][\A id \in built :
          /\ getFullURI(builders'[id]) = getFullURI(builders[id])
          /\ fetchOptions(builders'[id]) = fetchOptions(builders[id])]_vars


\* The text of the ids of an array joined by commas, as it stands in a query
\* string (the comma percent-encoded).
RECURSIVE JoinedIds(_)
JoinedIds(ids) ==
    IF Len(ids) = 1 THEN Text(encodeURIComponent(StringOf(ids[1])))
    ELSE Text(encodeURIComponent(StringOf(ids[1]))) \o "%2C" \o JoinedIds(Tail(ids))

BulkPath(op) ==
    CASE op = "getSeveralAlbums" -> "albums"
      [] op = "getSeveralEpisodes" -> "episodes"
      [] op = "getSeveralChapters" -> "chapters"
      [] op = "getSeveralAudiobooks" -> "audiobooks"

\* C27: every bulk operation that takes a list of ids (getSeveralAudiobooks and
\* getSeveralChapters included), when called with an id count inside its allowed
\* range [1, N], issues exactly one network request whose 'ids' parameter is the
\* ids joined by commas in their given order.
C27_InRangeBulkCallSendsTheJoinedIds ==
    ( /\ last.op \in {"getSeveralAlbums", "getSeveralEpisodes",
                      "getSeveralChapters", "getSeveralAudiobooks"}
      /\ Len(last.arg.ids.a) >= 1
      /\ Len(last.arg.ids.a) <= Ceiling(last.op) )
    => /\ built = {last.b}
       /\ last.ret \notin {Thrown(NotAFunction), Thrown(ReferenceError)}
       /\ pc = "await" =>
             /\ Len(net) = 1
             /\ Text(net[1].url)
                   = "https://api.spotify.com/v1/" \o BulkPath(last.op)
                       \o "?ids=" \o JoinedIds(last.arg.ids.a)
                       \o ( IF last.arg.market = Undefined THEN ""
                            ELSE "&market=US" )


\* The request a built builder b sends.
RequestOf(b) == [url |-> getFullURI(b), options |-> fetchOptions(b)]

\* The URL a resource call with the arguments a is expected to request.
ResourceURL(op, a) ==
    IF op = "getAlbum"
    THEN "https://api.spotify.com/v1/albums/" \o Text(StringOf(a.ids)) \o "?"
            \o ( IF a.market = Undefined THEN "" ELSE "market=US" )
    ELSE "https://api.spotify.com/v1/" \o BulkPath(op)
            \o "?ids=" \o JoinedIds(a.ids.a)
            \o ( IF a.market = Undefined THEN "" ELSE "&market=US" )

\* C29: the token stored by setAccessToken influences no request: whatever was
\* passed to setAccessToken, every request issued (resource calls,
\* getAccessToken, getRefreshToken) and every URI returned is the one a client
\* that never stored a token issues for the same call; the Authorization header
\* is taken only from the accessToken argument of the call or from
\* clientID/clientSecret.
C29_StoredTokenInfluencesNoRequest ==
    /\ pc = "await" =>
          /\ Len(net) = 1
          /\ CASE last.op = "getAccessToken" ->
                    /\ net[1] = RequestOf(getAccessToken_builder(Snodeify(Config),
                                                                 last.arg))
                    /\ Text(net[1].options.headers.Authorization.s)
                          = "Basic Y2lkOnNlYw=="
               [] last.op = "getRefreshToken" ->
                    /\ net[1] = RequestOf(getRefreshToken_builder(Snodeify(Config),
                                                                  last.arg))
                    /\ net[1].options.headers.Authorization = Undefined
               [] last.op = "getSpotifyAccessToken" ->
                    /\ net[1] = getSpotifyAccessToken_request(Snodeify(Config))
                    /\ Text(net[1].options.headers.Authorization.s)
                          = "Basic Y2lkOnNlYw=="
               [] OTHER ->
                    /\ net[1].options.headers.Authorization
                          = Str(<<"Bearer", " ">> \o last.arg.accessToken.s)
                    /\ Text(net[1].url) = ResourceURL(last.op, last.arg)
                    /\ net[1].options.body = Undefined
    /\ last.op = "getLoginURI" =>
          last.ret = Str(getAuthorizationURI(
                            getLoginURI_builder(Snodeify(Config),
                                                StateOf(last.ret.s))))

C29_Witness ==
    /\ pc = "await"
    /\ last.op = "getAlbum"
    /\ client.accessToken = Str(<<"U">>)
    /\ Text(net[1].options.headers.Authorization.s) = "Bearer T"
    /\ nsent = 2


\* The scheme of an Authorization header value ("" when the header is not set).
Scheme(authorization) ==
    IF authorization.type = "string" /\ authorization.s # <<>>
    THEN Head(authorization.s) ELSE ""

\* C30: credentials stay with their origin: every request whose Authorization
\* header uses the Basic scheme goes to the authorization server's base URI,
\* every request built by a resource call carries the Bearer scheme and goes to
\* the resource server's base URI, and no operation overrides the base URI its
\* builder (WebRequest.builder / AuthRequest.builder) chose.
C30_CredentialsStayWithTheirOrigin ==
    /\ pc = "await" =>
          LET request == net[1]
              scheme == Scheme(request.options.headers.Authorization)
              origin == Head(request.url)
          IN  /\ Len(net) = 1
              /\ scheme = "Basic" => origin = "https://accounts.spotify.com/"
              /\ scheme = "Bearer" => origin = "https://api.spotify.com/v1/"
              /\ last.op \in {"getAccessToken", "getSpotifyAccessToken"} =>
                    scheme = "Basic"
              /\ last.op \in {"getAccessToken", "getRefreshToken",
                              "getSpotifyAccessToken"} =>
                    origin = "https://accounts.spotify.com/"
              /\ last.op \in {"getAlbum", "getSeveralAlbums", "getSeveralEpisodes"} =>
                    /\ scheme = "Bearer"
                    /\ origin = "https://api.spotify.com/v1/"
    /\ last.b \in DOMAIN builders =>
          builders[last.b].baseURI
             = IF last.op \in {"getLoginURI", "getAccessToken", "getRefreshToken"}
               THEN Str(<<"https://accounts.spotify.com/">>)
               ELSE Str(<<"https://api.spotify.com/v1/">>)
    /\ last.op = "getLoginURI" =>
          Head(last.ret.s) = "https://accounts.spotify.com/"

C30_Witness ==
    /\ pc = "await"
    /\ last.op = "getAccessToken"
    /\ Scheme(net[1].options.headers.Authorization) = "Basic"
    /\ Head(net[1].url) = "https://accounts.spotify.com/"
    /\ client.accessToken = Str(<<"T">>)
    /\ nsent = 1

====
